---------------------------- MODULE Spec2Model ----------------------------
(***************************************************************************)
(* A model of generate_html.py, the static page generator of the Gravel    *)
(* Fryksas site.  The driver (main) enumerates the entries of areas/,      *)
(* loads each area's route metadata, writes the area index and the route   *)
(* pages, and finally writes the root index.  The file system written by   *)
(* the generator is the state; the input tree is drawn in Init.            *)
(*                                                                         *)
(* Text produced by the templates is kept as the values substituted into   *)
(* the template, each formatted the way the code formats it (str() inside  *)
(* f-strings, json.dumps for the embedded route data).  Paths and relative *)
(* references are sequences of path segments.  Directories are implied by  *)
(* the paths of the files (mkdir(parents=True, exist_ok=True)); failures   *)
(* of the file system itself are not modelled.                             *)
(***************************************************************************)
EXTENDS Naturals, Sequences, FiniteSets, TLC

VARIABLES
    tree,    \* the input: entries of areas/, each a plain file or an area directory
    fs,      \* the output files: path -> content
    run,     \* 1 for the first execution of the script, 2 for the second
    pc,      \* position of main: "iter", "index", "pages", "done", "aborted"
    todo,    \* entries of areas/ that iterdir() has not yielded yet in this run
    enum,    \* entries yielded so far in this run, in the order yielded
    areas,   \* main's list `areas`
    cur,     \* main's `area` (name of the area being processed)
    routes,  \* main's `routes` (result of load_routes for cur)
    k,       \* index in routes of the next route page to write
    log,     \* history: loads and file writes of this run, in order
    snap,    \* history: fs as the first run left it
    enum1,   \* history: enum as the first run left it
    rec,     \* renderer check: the route record drawn as input
    out      \* renderer check: what the renderers produced for rec

vars == <<tree, fs, run, pc, todo, enum, areas, cur, routes, k, log, snap, enum1, rec, out>>
driverVars == <<tree, fs, run, pc, todo, enum, areas, cur, routes, k, log, snap, enum1>>
renderVars == <<rec, out>>

-----------------------------------------------------------------------------
(* Bounds of the model *)

MaxAreas == 2      \* entries of areas/ are drawn from the first MaxAreas pool names
MaxFiles == 2      \* *.md files in the whole input tree

AreaPool == <<"fryksas", "sunne", "torsby", "arvika">>
CapitalizedPool == <<"Fryksas", "Sunne", "Torsby", "Arvika">>
EntryNames == {AreaPool[i] : i \in 1..MaxAreas}

-----------------------------------------------------------------------------
(* Python values as yaml.safe_load returns them *)

None == [kind |-> "none"]
Int(n) == [kind |-> "int", n |-> n]
Float(t) == [kind |-> "float", tenths |-> t]       \* the float t/10, e.g. 42.5
Str(s) == [kind |-> "str", s |-> s]
Lines(ls) == [kind |-> "lines", ls |-> ls]         \* a str with "\n" between the lines
List(xs) == [kind |-> "list", xs |-> xs]

\* dict.get(key) and dict.get(key, default); a dict is a function on its keys
Get(d, key) == IF key \in DOMAIN d THEN d[key] ELSE None
GetOr(d, key, default) == IF key \in DOMAIN d THEN d[key] ELSE default

\* str(n) for a non-negative int
RECURSIVE DigitChars(_)
DigitChars(n) ==
    LET d == <<"0", "1", "2", "3", "4", "5", "6", "7", "8", "9">>[(n % 10) + 1]
    IN  IF n < 10 THEN <<d>> ELSE Append(DigitChars(n \div 10), d)

RECURSIVE Concat(_)
Concat(chars) == IF chars = <<>> THEN "" ELSE Head(chars) \o Concat(Tail(chars))

\* repr of a float with one decimal: 42.5 -> "42.5", 42.0 -> "42.0"
FloatChars(t) == DigitChars(t \div 10) \o <<".">> \o DigitChars(t % 10)

RECURSIVE Join(_, _)
Join(ls, sep) ==
    IF ls = <<>> THEN ""
    ELSE IF Len(ls) = 1 THEN ls[1]
    ELSE ls[1] \o sep \o Join(Tail(ls), sep)

\* str(v), which is what an f-string placeholder {v} and str.format insert
PyStr(v) ==
    CASE v.kind = "none" -> "None"
      [] v.kind = "int" -> Concat(DigitChars(v.n))
      [] v.kind = "float" -> Concat(FloatChars(v.tenths))
      [] v.kind = "str" -> v.s
      [] v.kind = "lines" -> Join(v.ls, "\n")

\* json.dumps(v, ensure_ascii=False) as the characters of the JSON text; a str
\* is kept as one piece between its quotes
\* (fault: every value passed through str() first, so numbers become strings)
JsonDumpsQuoted(v) == <<"\"", PyStr(v), "\"">>
JsonDumps(v) ==
    CASE v.kind = "none" -> <<"n", "u", "l", "l">>
      [] v.kind = "int" -> DigitChars(v.n)
      [] v.kind = "float" -> FloatChars(v.tenths)
      [] v.kind = "str" -> <<"\"", v.s, "\"">>
      [] v.kind = "lines" -> <<"\"", Join(v.ls, "\\n"), "\"">>

-----------------------------------------------------------------------------
(* The input tree *)

\* The content of a *.md file: text yaml.safe_load rejects, or the front
\* matter of a route, given as the dict safe_load returns for it.
Unparsable == [parsable |-> FALSE]
FrontMatter(meta) == [parsable |-> TRUE, meta |-> meta]

Runda1 ==
    [title |-> Str("Rundan"), slug |-> Str("runda-1"),
     distance_km |-> Int(55), elevation_m |-> Int(600),
     gpx_file |-> Str("runda-1.gpx"), photos |-> List(<<>>)]
Runda2 ==
    [title |-> Str("Sjovarvet"), slug |-> Str("runda-2"),
     distance_km |-> Float(425), elevation_m |-> Int(350),
     asphalt_pct |-> Int(20), gravel_pct |-> Int(80),
     gpx_file |-> Str("runda-2.gpx"),
     description |-> Lines(<<"Runt sjon.", "Mest grus.">>),
     photos |-> List(<<Str("sjo.jpg")>>)]
Runda1Kort ==      \* shares its slug with Runda1
    [title |-> Str("Rundan kort"), slug |-> Str("runda-1"),
     gpx_file |-> Str("runda-1-kort.gpx"), description |-> Str("Kortare.")]
Runda3 ==          \* "description:" with no value: safe_load gives None
    [title |-> Str("Bergsrundan"), slug |-> Str("runda-3"),
     distance_km |-> Int(70), gpx_file |-> Str("runda-3.gpx"),
     description |-> None]

FileContents == {Unparsable, FrontMatter(Runda1), FrontMatter(Runda2),
                 FrontMatter(Runda1Kort), FrontMatter(Runda3)}

\* An entry of areas/: a plain file, or an area directory whose metadata/
\* holds the files FileName(1) .. FileName(n) with the given contents.
PlainFile == [is_dir |-> FALSE]
AreaDir(contents) == [is_dir |-> TRUE, metadata |-> contents]

FileName(i) == Concat(DigitChars(i)) \o ".md"

RECURSIVE ContentSeqs(_)
ContentSeqs(n) ==
    IF n = 0 THEN {<<>>}
    ELSE {Append(s, c) : s \in ContentSeqs(n - 1), c \in FileContents}

EntriesUpTo(budget) ==
    {PlainFile} \cup {AreaDir(s) : s \in UNION {ContentSeqs(n) : n \in 0..budget}}

FilesOf(entry) == IF entry.is_dir THEN Len(entry.metadata) ELSE 0

\* Every tree over a subset of `names` that holds at most `budget` *.md files
RECURSIVE Trees(_, _)
Trees(names, budget) ==
    IF names = {} THEN {<<>>}
    ELSE LET n == CHOOSE x \in names : TRUE
             rest == names \ {n}
         IN  Trees(rest, budget) \cup
             UNION {{(n :> e) @@ t : t \in Trees(rest, budget - FilesOf(e))} :
                    e \in EntriesUpTo(budget)}

-----------------------------------------------------------------------------
(* load_routes *)

\* sorted(): the ascending sequence of a set of file indices; FileName is
\* increasing in the index for the single-digit indices used here.
\* (fault: sorted(..., reverse=True))
RECURSIVE sortedDescending(_)
sortedDescending(S) ==
    IF S = {} THEN <<>>
    ELSE LET m == CHOOSE x \in S : \A y \in S : x >= y
         IN  <<m>> \o sortedDescending(S \ {m})
RECURSIVE sorted(_)
sorted(S) ==
    IF S = {} THEN <<>>
    ELSE LET m == CHOOSE x \in S : \A y \in S : x <= y
         IN  <<m>> \o sorted(S \ {m})

\* metadata_dir.glob("*.md"): the files of the directory, in no order
glob(metadata) == DOMAIN metadata

\* load_routes(area_path): yaml.safe_load raises on the first unparsable file
\* (raised), otherwise the parsed dicts in sorted file order (routes)
\* (fault: an unparsable file is skipped instead of raising)
load_routes_skipping(metadata) ==
    LET files == sorted(glob(metadata))
        good == SelectSeq(files, LAMBDA i : metadata[i].parsable)
    IN  [raised |-> FALSE,
         routes |-> [j \in 1..Len(good) |-> metadata[good[j]].meta]]
\* (fault: a directory without *.md files is treated as an error)
load_routes_raising_on_empty(metadata) ==
    LET files == sorted(glob(metadata))
    IN  IF files = <<>> \/ \E j \in 1..Len(files) : ~metadata[files[j]].parsable
        THEN [raised |-> TRUE, routes |-> <<>>]
        ELSE [raised |-> FALSE,
              routes |-> [j \in 1..Len(files) |-> metadata[files[j]].meta]]
load_routes(metadata) ==
    LET files == sorted(glob(metadata))
    IN  IF \E j \in 1..Len(files) : ~metadata[files[j]].parsable
        THEN [raised |-> TRUE, routes |-> <<>>]
        ELSE [raised |-> FALSE,
              routes |-> [j \in 1..Len(files) |-> metadata[files[j]].meta]]

-----------------------------------------------------------------------------
(* The renderers.  Each gives `raised` (the Python code raises before it   *)
(* writes) and `html`, the values the template holds.                      *)

Capitalize(area) ==
    LET i == CHOOSE j \in 1..Len(AreaPool) : AreaPool[j] = area
    IN  CapitalizedPool[i]

\* One element of routes_json
RouteJson(r) ==
    [title |-> JsonDumps(r["title"]),
     slug |-> JsonDumps(r["slug"]),
     distance |-> JsonDumps(Get(r, "distance_km")),
     elevation |-> JsonDumps(Get(r, "elevation_m")),
     asphalt |-> JsonDumps(Get(r, "asphalt_pct")),
     gravel |-> JsonDumps(Get(r, "gravel_pct"))]

generate_area_index(area, rs) ==
    IF \E j \in 1..Len(rs) : ~({"title", "slug"} \subseteq DOMAIN rs[j])
    THEN [raised |-> TRUE]                                  \* KeyError
    ELSE [raised |-> FALSE,
          html |-> [page |-> "area_index",
                    title |-> "Gravel " \o Capitalize(area),
                    stylesheet |-> <<"..", "..", "shared", "style.css">>,
                    routes_json |-> [j \in 1..Len(rs) |-> RouteJson(rs[j])]]]

\* description.replace("\n", "<br>")
ReplaceNewlines(description) ==
    IF description.kind = "lines" THEN Join(description.ls, "<br>")
    ELSE description.s

PhotoItem(img, title) ==
    [src |-> <<"..", "images", PyStr(img)>>, alt |-> "Foto " \o PyStr(title)]

generate_route_page(area, route) ==
    LET description == GetOr(route, "description", Str(""))
        photos == GetOr(route, "photos", List(<<>>))
        gpx_file == Get(route, "gpx_file")
    IN  IF \/ ~({"title", "slug"} \subseteq DOMAIN route)      \* KeyError
           \/ description.kind \notin {"str", "lines"}         \* AttributeError
           \/ photos.kind # "list"                             \* TypeError
        THEN [raised |-> TRUE]
        ELSE [raised |-> FALSE,
              html |-> [page |-> "route_page",
                        title |-> PyStr(route["title"]),
                        stylesheet |-> <<"..", "..", "..", "shared", "style.css">>,
                        back |-> <<"..", "index.html">>,
                        distance |-> PyStr(Get(route, "distance_km")),
                        elevation |-> PyStr(Get(route, "elevation_m")),
                        asphalt |-> PyStr(Get(route, "asphalt_pct")),
                        gravel |-> PyStr(Get(route, "gravel_pct")),
                        gpxPath |-> <<"..", "..", "gpx", PyStr(gpx_file)>>,
                        description_html |-> ReplaceNewlines(description),
                        photo_items |-> [j \in 1..Len(photos.xs) |->
                                            PhotoItem(photos.xs[j], route["title"])],
                        download |-> <<"..", "..", "gpx", PyStr(gpx_file)>>]]

AreaLink(area) ==
    [href |-> <<"areas", area, "index.html">>, text |-> Capitalize(area)]

\* (fault: the links are emitted in reverse order)
generate_root_index_reversed(as) ==
    [page |-> "root_index",
     stylesheet |-> <<"shared", "style.css">>,
     links |-> [j \in 1..Len(as) |-> AreaLink(as[Len(as) + 1 - j])]]
generate_root_index(as) ==
    [page |-> "root_index",
     stylesheet |-> <<"shared", "style.css">>,
     links |-> [j \in 1..Len(as) |-> AreaLink(as[j])]]

\* Output paths, relative to the project root
RootIndexPath == <<"index.html">>
AreaIndexPath(area) == <<"areas", area, "index.html">>
RoutePagePath(area, route) == <<"areas", area, "routes", PyStr(route["slug"]) \o ".html">>

\* Path.write_text: the file holds exactly the new text afterwards
\* (fault: the file is opened for appending)
write_text_appending(files, path, html) ==
    [p \in DOMAIN files \cup {path} |->
        IF p # path THEN files[p]
        ELSE IF p \in DOMAIN files THEN [page |-> "appended", old |-> files[p], new |-> html]
        ELSE html]
\* (fault: an existing file is kept)
write_text_exclusive(files, path, html) ==
    [p \in DOMAIN files \cup {path} |-> IF p \in DOMAIN files THEN files[p] ELSE html]
write_text(files, path, html) ==
    [p \in DOMAIN files \cup {path} |-> IF p = path THEN html ELSE files[p]]

-----------------------------------------------------------------------------
(* main *)

NoFiles == [p \in {} |-> None]

\* What the renderer check holds for one renderer: nothing yet, or its result
NotRendered == [rendered |-> FALSE]
Rendered(result) == [rendered |-> TRUE, result |-> result]

Event(op, area, path, html) == [op |-> op, area |-> area, path |-> path, html |-> html]

Init ==
    /\ tree \in Trees(EntryNames, MaxFiles)
    /\ fs = NoFiles
    /\ run = 1
    /\ pc = "iter"
    /\ todo = DOMAIN tree
    /\ enum = <<>>
    /\ areas = <<>>
    /\ cur = ""
    /\ routes = <<>>
    /\ k = 1
    /\ log = <<>>
    /\ snap = NoFiles
    /\ enum1 = <<>>
    /\ rec = [area |-> "", route |-> <<>>]
    /\ out = [index |-> NotRendered, page |-> NotRendered]

\* for area_path in areas_dir.iterdir(): an entry that is not a directory
MainSkipFile ==
    /\ pc = "iter"
    /\ \E e \in todo :
        /\ ~tree[e].is_dir
        /\ todo' = todo \ {e}
        /\ enum' = Append(enum, e)
    /\ UNCHANGED <<tree, fs, run, pc, areas, cur, routes, k, log, snap, enum1, rec, out>>

\* ... a directory: areas.append(area); routes = load_routes(area_path)
MainLoadRoutes ==
    /\ pc = "iter"
    /\ \E e \in todo :
        /\ tree[e].is_dir
        /\ todo' = todo \ {e}
        /\ enum' = Append(enum, e)
        /\ areas' = Append(areas, e)
        /\ cur' = e
        /\ log' = Append(log, Event("load", e, <<>>, None))
        /\ LET loaded == load_routes(tree[e].metadata)
           IN  IF loaded.raised
               THEN pc' = "aborted" /\ UNCHANGED routes
               ELSE pc' = "index" /\ routes' = loaded.routes
    /\ k' = 1
    /\ UNCHANGED <<tree, fs, run, snap, enum1, rec, out>>

\* generate_area_index(area, routes, area_path / "index.html")
MainAreaIndex ==
    /\ pc = "index"
    /\ LET index == generate_area_index(cur, routes)
       IN  IF index.raised
           THEN pc' = "aborted" /\ UNCHANGED <<fs, log>>
           ELSE /\ fs' = write_text(fs, AreaIndexPath(cur), index.html)
                /\ log' = Append(log, Event("index", cur, AreaIndexPath(cur), index.html))
                /\ pc' = IF Len(routes) = 0 THEN "iter" ELSE "pages"
    /\ UNCHANGED <<tree, run, todo, enum, areas, cur, routes, k, snap, enum1, rec, out>>

\* for route in routes: generate_route_page(area, route, out_path)
MainRoutePage ==
    /\ pc = "pages"
    /\ LET route == routes[k]
           page == generate_route_page(cur, route)
           out_path == RoutePagePath(cur, route)
       IN  IF page.raised
           THEN pc' = "aborted" /\ UNCHANGED <<fs, log, k>>
           ELSE /\ fs' = write_text(fs, out_path, page.html)
                /\ log' = Append(log, Event("page", cur, out_path, page.html))
                /\ k' = k + 1
                /\ pc' = IF k = Len(routes) THEN "iter" ELSE "pages"
    /\ UNCHANGED <<tree, run, todo, enum, areas, cur, routes, snap, enum1, rec, out>>

\* (fault: the call sits inside the loop; the guard on log keeps the run finite)
MainRootIndexEarly ==
    /\ pc = "iter"
    /\ fs' = write_text(fs, RootIndexPath, generate_root_index(areas))
    /\ log' = Append(log, Event("root", "", RootIndexPath, generate_root_index(areas)))
    /\ pc' = IF todo = {} THEN "done" ELSE "iter"
    /\ Len(log) < 6
    /\ UNCHANGED <<tree, run, todo, enum, areas, cur, routes, k, snap, enum1, rec, out>>
\* generate_root_index(areas, project_root / "index.html"), after the loop
MainRootIndex ==
    /\ pc = "iter"
    /\ todo = {}
    /\ fs' = write_text(fs, RootIndexPath, generate_root_index(areas))
    /\ log' = Append(log, Event("root", "", RootIndexPath, generate_root_index(areas)))
    /\ pc' = "done"
    /\ UNCHANGED <<tree, run, todo, enum, areas, cur, routes, k, snap, enum1, rec, out>>

\* The script is executed a second time on the same input tree; the files the
\* first execution wrote are still there.
RunAgain ==
    /\ run = 1
    /\ pc \in {"done", "aborted"}
    /\ run' = 2
    /\ snap' = fs
    /\ enum1' = enum
    /\ pc' = "iter"
    /\ todo' = DOMAIN tree
    /\ enum' = <<>>
    /\ areas' = <<>>
    /\ cur' = ""
    /\ routes' = <<>>
    /\ k' = 1
    /\ log' = <<>>
    /\ UNCHANGED <<tree, fs, rec, out>>

Next ==
    \/ MainSkipFile
    \/ MainLoadRoutes
    \/ MainAreaIndex
    \/ MainRoutePage
    \/ MainRootIndex
    \/ RunAgain

Spec == Init /\ [][Next]_vars

-----------------------------------------------------------------------------
(* The renderers on their own: a route record is drawn, and the area index *)
(* and the route page are rendered for it.                                 *)

Absent == [kind |-> "absent"]      \* marks a key the front matter does not hold

NumericChoices == {Absent, None, Int(0), Int(600), Float(425), Float(420)}
PhotoChoices == {Absent, List(<<>>), List(<<Str("sjo.jpg"), Str("berg.jpg")>>)}
DescriptionChoices == {Absent, Lines(<<"Runt sjon.", "Mest grus.">>)}

\* The dict holding the keys whose choice is not Absent
Dict(choice) ==
    [key \in {x \in DOMAIN choice : choice[x] # Absent} |-> choice[key]]

RouteChoices ==
    [title : {Str("Rundan")}, slug : {Str("runda-1")},
     distance_km : NumericChoices, elevation_m : NumericChoices,
     asphalt_pct : NumericChoices, gravel_pct : NumericChoices,
     gpx_file : {Str("runda-1.gpx")},
     description : DescriptionChoices, photos : PhotoChoices]

InitRender ==
    /\ tree = NoFiles
    /\ fs = NoFiles
    /\ run = 1
    /\ pc = "render"
    /\ todo = {}
    /\ enum = <<>>
    /\ areas = <<>>
    /\ cur = ""
    /\ routes = <<>>
    /\ k = 1
    /\ log = <<>>
    /\ snap = NoFiles
    /\ enum1 = <<>>
    /\ \E area \in EntryNames, choice \in RouteChoices :
          rec = [area |-> area, route |-> Dict(choice)]
    /\ out = [index |-> NotRendered, page |-> NotRendered]

RenderAreaIndex ==
    /\ pc = "render"
    /\ ~out.index.rendered
    /\ out' = [out EXCEPT !.index = Rendered(generate_area_index(rec.area, <<rec.route>>))]
    /\ UNCHANGED <<driverVars, rec>>

RenderRoutePage ==
    /\ pc = "render"
    /\ ~out.page.rendered
    /\ out' = [out EXCEPT !.page = Rendered(generate_route_page(rec.area, rec.route))]
    /\ UNCHANGED <<driverVars, rec>>

NextRender == RenderAreaIndex \/ RenderRoutePage

SpecRender == InitRender /\ [][NextRender]_vars

-----------------------------------------------------------------------------
(* What the browser does with the generated pages *)

DigitValue(c) ==
    CASE c = "0" -> 0 [] c = "1" -> 1 [] c = "2" -> 2 [] c = "3" -> 3 [] c = "4" -> 4
      [] c = "5" -> 5 [] c = "6" -> 6 [] c = "7" -> 7 [] c = "8" -> 8 [] c = "9" -> 9

RECURSIVE ParseDigits(_)
ParseDigits(chars) ==
    IF chars = <<>> THEN 0
    ELSE 10 * ParseDigits(SubSeq(chars, 1, Len(chars) - 1)) + DigitValue(chars[Len(chars)])

\* The value of an element of the literal in `const routes = ...;`: null, a
\* string, or a number (given in tenths; the literals here have at most one
\* decimal)
JsValue(chars) ==
    IF chars = <<"n", "u", "l", "l">> THEN [type |-> "null"]
    ELSE IF chars[1] = "\"" THEN [type |-> "string", s |-> chars[2]]
    ELSE IF \E j \in 1..Len(chars) : chars[j] = "."
         THEN LET dot == CHOOSE j \in 1..Len(chars) : chars[j] = "."
              IN  [type |-> "number",
                   tenths |-> 10 * ParseDigits(SubSeq(chars, 1, dot - 1))
                              + ParseDigits(SubSeq(chars, dot + 1, Len(chars)))]
         ELSE [type |-> "number", tenths |-> 10 * ParseDigits(chars)]

\* The path a relative reference names, from the directory of the page that
\* holds it: ".." drops the last segment, "." keeps the directory
RECURSIVE Resolve(_, _)
Resolve(dir, ref) ==
    IF ref = <<>> THEN dir
    ELSE IF Head(ref) = ".." THEN Resolve(SubSeq(dir, 1, Len(dir) - 1), Tail(ref))
    ELSE IF Head(ref) = "." THEN Resolve(dir, Tail(ref))
    ELSE Resolve(Append(dir, Head(ref)), Tail(ref))

DirOf(path) == SubSeq(path, 1, Len(path) - 1)

\* The reference the area index's script builds for an element of routes:
\* ./routes/${r.slug}.html
RouteHref(element) == <<".", "routes", JsValue(element.slug).s \o ".html">>

-----------------------------------------------------------------------------
(* Claims about the renderers (checked under SpecRender) *)

NumericKeys == {"distance_km", "elevation_m", "asphalt_pct", "gravel_pct"}
PageField(key) ==
    CASE key = "distance_km" -> "distance" [] key = "elevation_m" -> "elevation"
      [] key = "asphalt_pct" -> "asphalt" [] key = "gravel_pct" -> "gravel"

PageRendered == out.page.rendered /\ ~out.page.result.raised
IndexRendered == out.index.rendered /\ ~out.index.result.raised

\* C3: the route page shows each of the four numeric facts with the record's
\* value when the field is present and blank when it is absent.
C3_FactsShownOrBlank ==
    PageRendered =>
        \A key \in NumericKeys :
            out.page.result.html[PageField(key)] =
                IF key \in DOMAIN rec.route
                THEN PyStr(rec.route[key])
                ELSE ""

\* C4: from areas/<area>/routes/<slug>.html the stylesheet reference resolves
\* to shared/style.css under the root, every photo reference into the area's
\* images directory, and both track references to gpx_file in the area's gpx
\* directory.
C4_ReferencesResolve ==
    PageRendered =>
        LET html == out.page.result.html
            dir == DirOf(RoutePagePath(rec.area, rec.route))
            track == <<"areas", rec.area, "gpx", PyStr(rec.route["gpx_file"])>>
            photos == GetOr(rec.route, "photos", List(<<>>)).xs
        IN  /\ Resolve(dir, html.stylesheet) = <<"shared", "style.css">>
            /\ Len(html.photo_items) = Len(photos)
            /\ \A j \in 1..Len(photos) :
                  Resolve(dir, html.photo_items[j].src) =
                      <<"areas", rec.area, "images", PyStr(photos[j])>>
            /\ Resolve(dir, html.gpxPath) = track
            /\ Resolve(dir, html.download) = track

\* The part of C4 that the stylesheet and photo references satisfy
C4_StylesheetAndPhotosResolve ==
    PageRendered =>
        LET html == out.page.result.html
            dir == DirOf(RoutePagePath(rec.area, rec.route))
            photos == GetOr(rec.route, "photos", List(<<>>)).xs
        IN  /\ Resolve(dir, html.stylesheet) = <<"shared", "style.css">>
            /\ \A j \in 1..Len(photos) :
                  Resolve(dir, html.photo_items[j].src) =
                      <<"areas", rec.area, "images", PyStr(photos[j])>>

\* What the loader parsed, as the client-side value it stands for
Parsed(v) ==
    IF v.kind = "int" THEN [type |-> "number", tenths |-> 10 * v.n]
    ELSE IF v.kind = "float" THEN [type |-> "number", tenths |-> v.tenths]
    ELSE [type |-> "null"]

\* C9: each of the four numeric fields is embedded in the area index's route
\* data as the number the loader parsed (not a string, not another number),
\* and an absent field as null.
C9_NumbersRoundTrip ==
    IndexRendered =>
        \A key \in NumericKeys :
            JsValue(out.index.result.html.routes_json[1][PageField(key)])
                = Parsed(Get(rec.route, key))

C9_Witness ==
    /\ IndexRendered
    /\ Get(rec.route, "distance_km") = Float(425)
    /\ Get(rec.route, "elevation_m") = Int(600)
    /\ "asphalt_pct" \notin DOMAIN rec.route
    /\ Get(rec.route, "gravel_pct") = Float(420)

-----------------------------------------------------------------------------
(* Claims about the driver (checked under Spec) *)

Dirs == {e \in DOMAIN tree : tree[e].is_dir}
Enumerated == {areas[j] : j \in 1..Len(areas)}
HasUnparsable(a) == \E i \in DOMAIN tree[a].metadata : ~tree[a].metadata[i].parsable
Ops(area, ops) == {j \in 1..Len(log) : log[j].area = area /\ log[j].op \in ops}
Writes == {j \in 1..Len(log) : log[j].op \in {"index", "page", "root"}}
RootWrites == {j \in 1..Len(log) : log[j].op = "root"}
LastWrite(path) ==
    CHOOSE j \in Writes : log[j].path = path /\ \A l \in Writes : log[l].path = path => l <= j

\* Every file written in this run is there and holds what was last written to it
LeftAsWritten ==
    \A j \in Writes :
        /\ log[j].path \in DOMAIN fs
        /\ fs[log[j].path] = log[LastWrite(log[j].path)].html

\* C1: when a route file of an area is unparsable, the run aborts with no
\* output file of that area written and no root index written, and the files
\* written for the areas processed earlier stay as written.
C1_UnparsableAborts ==
    \A a \in Enumerated :
        HasUnparsable(a) =>
            /\ pc = "aborted"
            /\ cur = a
            /\ Ops(a, {"index", "page"}) = {}
            /\ RootWrites = {}
            /\ LeftAsWritten

C1_Witness ==
    /\ pc = "aborted"
    /\ HasUnparsable(cur)
    /\ Len(areas) = 2
    /\ Ops(areas[1], {"index"}) # {}
    /\ Ops(areas[1], {"page"}) # {}

\* C2: the route data embedded in an area index holds one entry per *.md file
\* of the area's metadata directory, in ascending file name order, each with
\* the title and slug of its file's record.
C2_OneEntryPerFile ==
    \A j \in 1..Len(log) :
        log[j].op = "index" =>
            LET metadata == tree[log[j].area].metadata
                embedded == fs[log[j].path].routes_json
            IN  /\ Len(embedded) = Cardinality(DOMAIN metadata)
                /\ \A i \in 1..Len(embedded) :
                      /\ JsValue(embedded[i].title)
                            = [type |-> "string", s |-> metadata[i].meta["title"].s]
                      /\ JsValue(embedded[i].slug)
                            = [type |-> "string", s |-> metadata[i].meta["slug"].s]

C2_Witness ==
    \E j \in 1..Len(log) :
        /\ log[j].op = "index"
        /\ Len(fs[log[j].path].routes_json) = 2
        /\ tree[log[j].area].metadata[1].meta["slug"]
              # tree[log[j].area].metadata[2].meta["slug"]

\* C6: areas are processed one at a time; an area's routes are loaded before
\* its index is written and its index before any of its route pages; the root
\* index is written once, after every area is fully processed, and never in a
\* run that aborts.
C6_OrderOfWrites ==
    /\ \A i, j, l \in 1..Len(log) :
          (i < j /\ j < l /\ log[i].area = log[l].area /\ log[i].area # "")
              => log[j].area = log[i].area
    /\ \A a \in Enumerated :
          /\ Cardinality(Ops(a, {"load"})) = 1
          /\ Cardinality(Ops(a, {"index"})) <= 1
          /\ \A j \in Ops(a, {"index"}) : \A i \in Ops(a, {"load"}) : i < j
          /\ \A j \in Ops(a, {"page"}) : \E i \in Ops(a, {"index"}) : i < j
    /\ Cardinality(RootWrites) <= 1
    /\ \A j \in RootWrites :
          /\ j = Len(log)
          /\ pc = "done"
          /\ \A a \in Dirs :
                /\ Ops(a, {"index"}) # {}
                /\ Cardinality(Ops(a, {"page"})) = Len(tree[a].metadata)
    /\ pc = "done" => Cardinality(RootWrites) = 1
    /\ pc = "aborted" => RootWrites = {}

C6_Witness ==
    /\ pc = "done"
    /\ Len(areas) = 2
    /\ \A a \in Enumerated : Ops(a, {"page"}) # {}

\* C7: after a successful run the root index holds one link per subdirectory
\* of areas/, to areas/<area>/index.html, in enumeration order; entries that
\* are not directories get no link and no output file; every linked area index
\* was written by the run.
C7_RootIndexLinks ==
    pc = "done" =>
        LET links == fs[RootIndexPath].links
            dirs == SelectSeq(enum, LAMBDA e : tree[e].is_dir)
        IN  /\ Len(links) = Cardinality(Dirs)
            /\ \A j \in 1..Len(links) :
                  /\ j <= Len(dirs)
                  /\ Resolve(DirOf(RootIndexPath), links[j].href)
                        = <<"areas", dirs[j], "index.html">>
                  /\ \E i \in Writes : i < Len(log) /\ log[i].op = "index"
                        /\ log[i].path = Resolve(DirOf(RootIndexPath), links[j].href)
            /\ \A e \in DOMAIN tree \ Dirs :
                  \A p \in DOMAIN fs : ~(Len(p) >= 2 /\ p[1] = "areas" /\ p[2] = e)

C7_Witness ==
    /\ pc = "done"
    /\ Len(fs[RootIndexPath].links) = 2
    /\ Len(log) > 3

\* C8: an area whose metadata directory holds no route file is processed
\* without error: its index is written with an empty route list, no route
\* page is written for it, it is linked from the root index, and the run goes
\* on with the remaining areas.
C8_EmptyArea ==
    \A a \in Enumerated :
        (Cardinality(DOMAIN tree[a].metadata) = 0 /\ ~(cur = a /\ pc = "index")) =>
            /\ ~(pc = "aborted" /\ cur = a)
            /\ Ops(a, {"index"}) # {}
            /\ fs[AreaIndexPath(a)].routes_json = <<>>
            /\ Ops(a, {"page"}) = {}
            /\ \A p \in DOMAIN fs : ~(Len(p) >= 3 /\ p[2] = a /\ p[3] = "routes")
            /\ pc = "done" =>
                  \E j \in 1..Len(fs[RootIndexPath].links) :
                      fs[RootIndexPath].links[j].href = <<"areas", a, "index.html">>

C8_Witness ==
    /\ pc = "done"
    /\ Len(areas) = 2
    /\ tree[areas[1]].metadata = <<>>
    /\ Ops(areas[2], {"page"}) # {}

\* The file name <slug>.html of a record's slug
SlugFile(slug) == slug.s \o ".html"

\* C10: after a successful run the route pages written for an area are exactly
\* the files routes/<slug>.html of its records, so every entry of the area
\* index links to a written page; with unique slugs there are as many pages as
\* records, and where records share a slug the file holds the page of the
\* record that is last in file name order.
C10_RoutePages ==
    pc = "done" =>
        \A a \in Dirs :
            LET metadata == tree[a].metadata
                written == {log[j].path : j \in Ops(a, {"page"})}
                embedded == fs[AreaIndexPath(a)].routes_json
                last(path) == CHOOSE i \in DOMAIN metadata :
                    /\ <<"areas", a, "routes", SlugFile(metadata[i].meta["slug"])>> = path
                    /\ \A l \in DOMAIN metadata :
                          metadata[l].meta["slug"] = metadata[i].meta["slug"] => l <= i
            IN  /\ written = {<<"areas", a, "routes", SlugFile(metadata[i].meta["slug"])>> :
                                i \in DOMAIN metadata}
                /\ \A i \in 1..Len(embedded) :
                      Resolve(DirOf(AreaIndexPath(a)), RouteHref(embedded[i]))
                          \in written \cap DOMAIN fs
                /\ (\A i, l \in DOMAIN metadata :
                        metadata[i].meta["slug"] = metadata[l].meta["slug"] => i = l)
                      => Cardinality(written) = Len(metadata)
                /\ \A path \in written :
                      fs[path] = generate_route_page(a, metadata[last(path)].meta).html

C10_Witness ==
    /\ pc = "done"
    /\ \E a \in Dirs :
          /\ Len(tree[a].metadata) = 2
          /\ tree[a].metadata[1].meta = Runda1
          /\ tree[a].metadata[2].meta = Runda1Kort
          /\ Cardinality({p \in DOMAIN fs : Len(p) = 4 /\ p[2] = a}) = 1

\* C5 as stated: after the second run the output files equal those after the
\* first run, whatever the order in which areas/ was enumerated.
C5_SecondRunIdentical ==
    (run = 2 /\ pc = "done") => fs = snap

\* C5 as amended: the second run leaves the same set of output files, every
\* area index and route page unchanged, and the same set of links in the root
\* index; the root index itself is unchanged when both runs enumerate areas/
\* in the same order.
C5_SecondRunIdenticalSameOrder ==
    (run = 2 /\ pc \in {"done", "aborted"}) =>
        /\ enum = enum1 => fs = snap
        /\ pc = "done" =>
              /\ DOMAIN fs = DOMAIN snap
              /\ \A p \in DOMAIN fs \ {RootIndexPath} : fs[p] = snap[p]
              /\ {fs[RootIndexPath].links[j] : j \in 1..Len(fs[RootIndexPath].links)}
                    = {snap[RootIndexPath].links[j] : j \in 1..Len(snap[RootIndexPath].links)}

C5_Witness ==
    /\ run = 2
    /\ pc = "done"
    /\ enum = enum1
    /\ Len(areas) = 2
    /\ \A a \in Enumerated : Ops(a, {"page"}) # {}

=============================================================================
